---- MODULE Spec2Model ----
(***************************************************************************)
(* Model of mdtools/openmm/reporter.py: the OfflineReporter that samples a *)
(* running simulation, accumulates per-frame descriptors in memory and     *)
(* writes a batch to an HDF5 container every frames_per_h5 reports.        *)
(***************************************************************************)
EXTENDS Integers, Sequences, FiniteSets, TLC

\* ------------------------------------------------------------------------
\* Bounds of the model
\* ------------------------------------------------------------------------
MaxReports == 3      \* report calls explored per behaviour
MaxBatch == 2        \* frames_per_h5 ranges over 0..MaxBatch
MaxCoord == 2        \* the moving atom sits at x = 1..MaxCoord (nm)
MaxStep == 6         \* simulation steps explored by the scheduling spec
MaxInterval == 3     \* reportInterval ranges over 1..MaxInterval

\* ------------------------------------------------------------------------
\* Python values
\* ------------------------------------------------------------------------
None == [kind |-> "None", data |-> <<>>]
Unset == [kind |-> "unset", data |-> <<>>]
List(d) == [kind |-> "list", data |-> d]
Array(d) == [kind |-> "ndarray", data |-> d]

Range(s) == {s[i] : i \in DOMAIN s}

RECURSIVE SumSeq(_)
SumSeq(s) == IF s = <<>> THEN 0 ELSE Head(s) + SumSeq(Tail(s))

Abs(x) == IF x < 0 THEN -x ELSE x

\* ------------------------------------------------------------------------
\* The simulation the reporter is attached to
\* ------------------------------------------------------------------------
\* atom names of simulation.topology.atoms(), in index order
Topology == <<"CA", "CB", "CA">>

\* state.getPositions(): one snapshot of all atoms, in nanometres
AllPositionsSet ==
    {<< <<0, 0, 0>>, <<0, 1, 0>>, <<d, 0, 0>> >> : d \in 1..MaxCoord}

\* value_in_unit(u.angstrom) on OpenMM positions kept in nanometres
value_in_unit_angstrom(all_positions) ==
    [i \in DOMAIN all_positions |->
        [c \in DOMAIN all_positions[i] |-> 10 * all_positions[i][c]]]

\* atom_indices = [a.index for a in topology.atoms() if a.name in selection]
atom_indices(selection) ==
    SelectSeq([i \in DOMAIN Topology |-> i], LAMBDA i : Topology[i] \in selection)

\* positions = all_positions[atom_indices]
ExtractPositions(all_positions, selection) ==
    LET idx == atom_indices(selection)
        ang == value_in_unit_angstrom(all_positions)
    IN  [k \in DOMAIN idx |-> ang[idx[k]]]

\* ------------------------------------------------------------------------
\* Structure files read at construction
\* ------------------------------------------------------------------------
\* select_atoms(mda_selection).positions of the reference PDB (angstrom)
ReferencePdbPositions == << <<0, 0, 0>>, <<10, 0, 0>> >>

\* select_atoms(mda_selection).positions of the wrap PDB (angstrom)
WrapPdbPositions == << <<5, 5, 5>>, <<15, 5, 5>> >>

\* nsp16.dimensions[0]: edge of the periodic box of the wrap PDB (angstrom)
BoxEdge == 30

\* atoms.segments[0].atoms: indices of the atoms of the first segment
Segment0 == {1}

\* ------------------------------------------------------------------------
\* Library routines the reporter calls
\* ------------------------------------------------------------------------
Coords == 1..3

\* AtomGroup.center_of_mass() over the atoms of group g (equal masses)
center_of_mass(pos, g) ==
    [c \in Coords |-> SumSeq([k \in 1..Cardinality(g) |->
        LET i == CHOOSE j \in g : Cardinality({m \in g : m < j}) = k - 1
        IN  pos[i][c]]) \div Cardinality(g)]

\* AtomGroup.translate(t)
translate(pos, t) ==
    [i \in DOMAIN pos |-> [c \in Coords |-> pos[i][c] + t[c]]]

\* AtomGroup.wrap(): every atom is moved into the primary unit cell
wrap_into_box(pos) ==
    [i \in DOMAIN pos |-> [c \in Coords |-> pos[i][c] % BoxEdge]]

\* wrap_nsp10_16(positions): the value left in atoms.positions, which is
\* also the value returned
wrap_nsp10_16(positions) ==
    LET box_center == BoxEdge \div 2
        all == DOMAIN positions
        com1 == center_of_mass(positions, Segment0)
        p1 == wrap_into_box(translate(positions,
                  [c \in Coords |-> box_center - com1[c]]))
        com2 == center_of_mass(p1, all)
    IN  wrap_into_box(translate(p1, [c \in Coords |-> box_center - com2[c]]))

\* squared Euclidean distance of atoms i and j
Dist2(pos, i, j) ==
    SumSeq([c \in Coords |-> (pos[i][c] - pos[j][c]) * (pos[i][c] - pos[j][c])])

\* rms.rmsd(positions, reference, superposition=True): a deviation that is
\* unchanged by rigid motion, here the summed pair-distance deviation
rms_rmsd(positions, reference) ==
    SumSeq([i \in DOMAIN positions |->
        SumSeq([j \in DOMAIN positions |->
            Abs(Dist2(positions, i, j) - Dist2(reference, i, j))])])

\* distances.contact_matrix(positions, cutoff, returntype="sparse"):
\* the set of (row, column) pairs marked true, indices counted from 0
contact_matrix(positions, cutoff) ==
    {<<i - 1, j - 1>> : <<i, j>> \in
        {p \in (DOMAIN positions) \X (DOMAIN positions) :
            p[1] = p[2] \/ Dist2(positions, p[1], p[2]) < cutoff * cutoff}}

\* number of atoms a contact map ranges over is bounded by the topology
MatrixDim == Len(Topology)

\* contact_map.tocoo(): the true entries in row-major order
RECURSIVE CooFrom(_, _)
CooFrom(cm, k) ==
    IF k >= MatrixDim * MatrixDim THEN <<>>
    ELSE LET e == <<k \div MatrixDim, k % MatrixDim>>
         IN  (IF e \in cm THEN <<e>> ELSE <<>>) \o CooFrom(cm, k + 1)

tocoo(cm) == CooFrom(cm, 0)

\* ndarray.astype("int16")
astype_int16(x) == ((x + 32768) % 65536) - 32768

coo_row(cm) == [k \in DOMAIN tocoo(cm) |-> astype_int16(tocoo(cm)[k][1])]
coo_col(cm) == [k \in DOMAIN tocoo(cm) |-> astype_int16(tocoo(cm)[k][2])]

\* fraction_of_contacts(contact_map, reference_contact_map): share of the
\* reference contacts also present in the frame, in percent
fraction_of_contacts(cm, ref_cm) ==
    IF ref_cm = {} THEN 0
    ELSE (100 * Cardinality(cm \cap ref_cm)) \div Cardinality(ref_cm)

\* variant: the axes are left as collected
np_transpose_none(data) == data

\* np.transpose(data, [0, 2, 1]): out[f][c][a] = data[f][a][c]
np_transpose_021(data) ==
    [f \in DOMAIN data |->
        [c \in Coords |-> [a \in DOMAIN data[f] |-> data[f][a][c]]]]

\* ------------------------------------------------------------------------
\* The output container
\* ------------------------------------------------------------------------
\* an HDF5 file just created by mode "w": no dataset in it
EmptyContainer == [s \in {} |-> <<>>]

\* f"{self._base_name}.h5"
file_name(base_name) == <<base_name, ".h5">>

\* variant: the file is opened in mode "a", keeping what it holds
open_a(fs, name) == IF name \in DOMAIN fs THEN fs[name] ELSE EmptyContainer

\* h5py.File(file_name, "w"): the content the opened file starts from,
\* given the files fs on disk
open_w(fs, name) == EmptyContainer

\* the writers create one dataset per buffer; a dataset already in the file
\* is not replaced
write_contact_map(h5_file, r, c) ==
    h5_file @@ ("contact_map_rows" :> r) @@ ("contact_map_cols" :> c)

write_point_cloud(h5_file, data) == h5_file @@ ("point_cloud" :> data)

write_rmsd(h5_file, data) == h5_file @@ ("rmsd" :> data)

write_fraction_of_contacts(h5_file, data) ==
    h5_file @@ ("fraction_of_contacts" :> data)

\* ------------------------------------------------------------------------
\* State
\* ------------------------------------------------------------------------
VARIABLES
    args,                       \* arguments handed to OfflineReporter(...)
    phase,                      \* "new", "ok" or "ValueError"
    self,                       \* the attributes __init__ copies from args
    num_frames,                 \* self._num_frames
    rows,                       \* self._rows
    cols,                       \* self._cols
    rmsd,                       \* self._rmsd
    fraction_of_contacts_data,  \* self._fraction_of_contacts_data
    point_cloud_data,           \* self._point_cloud_data
    reference_positions,        \* self._reference_positions
    reference_contact_map,      \* self._reference_contact_map
    wrap_atoms,                 \* self.wrap: the positions held by its atoms
    files,                      \* the files on disk, by name
    outcome,                    \* how the last call ended
    currentStep,                \* simulation.currentStep
    described,                  \* last describeNextReport call: step, result
    reported,                   \* history: positions handed to report()
    flushes,                    \* history: the flushes attempted
    map_calls                   \* history: per report call, the contact
                                \* maps _compute_contact_map returned

vars == <<args, phase, self, num_frames, rows, cols, rmsd,
          fraction_of_contacts_data, point_cloud_data, reference_positions,
          reference_contact_map, wrap_atoms, files, outcome, currentStep,
          described, reported, flushes, map_calls>>

batch_vars == <<num_frames, rows, cols, rmsd, fraction_of_contacts_data,
                point_cloud_data>>

reference_vars == <<reference_positions, reference_contact_map>>

sim_vars == <<currentStep, described>>

ThresholdSet == {8, 12}

ArgSet ==
    [file : {"out"},
     reportInterval : 1..MaxInterval,
     frames_per_h5 : 0..MaxBatch,
     wrap_pdb_file : {"None", "wrap.pdb"},
     reference_pdb_file : {"None", "reference.pdb"},
     openmm_selection : {{"CA"}},
     threshold : ThresholdSet,
     contact_map : BOOLEAN,
     point_cloud : BOOLEAN,
     fraction_of_contacts : BOOLEAN]

NoObject ==
    [file_idx |-> 0, base_name |-> "", report_interval |-> 1,
     wrap_pdb_file |-> "None", reference_pdb_file |-> "None",
     openmm_selection |-> {}, threshold |-> 0, frames_per_h5 |-> 0,
     contact_map |-> FALSE, point_cloud |-> FALSE,
     fraction_of_contacts |-> FALSE]

NoCall == [at |-> -1, value |-> <<>>]

\* the state before the constructor runs, for arguments a
InitWith(a) ==
    /\ args = a
    /\ phase = "new"
    /\ self = NoObject
    /\ num_frames = 0
    /\ rows = Unset
    /\ cols = Unset
    /\ rmsd = Unset
    /\ fraction_of_contacts_data = Unset
    /\ point_cloud_data = Unset
    /\ reference_positions = Unset
    /\ reference_contact_map = Unset
    /\ wrap_atoms = Unset
    /\ files = [n \in {} |-> EmptyContainer]
    /\ outcome = "none"
    /\ currentStep = 0
    /\ described = NoCall
    /\ reported = <<>>
    /\ flushes = <<>>
    /\ map_calls = <<>>

\* report() never reads the report interval: one value of it is explored
Init == \E a \in {x \in ArgSet : x.reportInterval = 1} : InitWith(a)

\* describeNextReport is explored for every report interval
InitSched == \E a \in ArgSet : InitWith(a)

\* ------------------------------------------------------------------------
\* OfflineReporter.__init__
\* ------------------------------------------------------------------------
\* variant: only the fraction_of_contacts check is made
init_raises_foc_only(a) ==
    a.fraction_of_contacts /\ a.reference_pdb_file = "None"

\* the two checks that raise ValueError
init_raises(a) ==
    \/ a.fraction_of_contacts /\ a.reference_pdb_file = "None"
    \/ a.contact_map /\ a.reference_pdb_file = "None"

init_fields(a) ==
    [file_idx |-> 0, base_name |-> a.file,
     report_interval |-> a.reportInterval,
     wrap_pdb_file |-> a.wrap_pdb_file,
     reference_pdb_file |-> a.reference_pdb_file,
     openmm_selection |-> a.openmm_selection, threshold |-> a.threshold,
     frames_per_h5 |-> a.frames_per_h5, contact_map |-> a.contact_map,
     point_cloud |-> a.point_cloud,
     fraction_of_contacts |-> a.fraction_of_contacts]

\* variant: the point cloud list is not renewed
init_batch_keeps_point_cloud(o, old) ==
    [num_frames |-> 0,
     rows |-> IF o.contact_map THEN List(<<>>) ELSE old.rows,
     cols |-> IF o.contact_map THEN List(<<>>) ELSE old.cols,
     rmsd |-> IF o.reference_pdb_file # "None" THEN List(<<>>) ELSE old.rmsd,
     fraction_of_contacts_data |->
         IF o.fraction_of_contacts THEN List(<<>>)
         ELSE old.fraction_of_contacts_data,
     point_cloud_data |->
         IF old.point_cloud_data.kind = "unset" /\ o.point_cloud
         THEN List(<<>>) ELSE old.point_cloud_data]

\* _init_batch: the value each attribute has afterwards, given the object
\* fields o and the attribute values old before the call
init_batch(o, old) ==
    [num_frames |-> 0,
     rows |-> IF o.contact_map THEN List(<<>>) ELSE old.rows,
     cols |-> IF o.contact_map THEN List(<<>>) ELSE old.cols,
     rmsd |-> IF o.reference_pdb_file # "None" THEN List(<<>>) ELSE old.rmsd,
     fraction_of_contacts_data |->
         IF o.fraction_of_contacts THEN List(<<>>)
         ELSE old.fraction_of_contacts_data,
     point_cloud_data |->
         IF o.point_cloud THEN List(<<>>) ELSE old.point_cloud_data]

\* _compute_contact_map with the threshold stored in the object fields o
compute_contact_map(o, positions) == contact_matrix(positions, o.threshold)

init_reference_positions(o) ==
    IF o.reference_pdb_file = "None" THEN None
    ELSE Array(ReferencePdbPositions)

\* variant: the reference map is computed with the default threshold
init_reference_contact_map_default(o, old) ==
    IF ~o.fraction_of_contacts THEN old
    ELSE [kind |-> "sparse",
          data |-> contact_matrix(ReferencePdbPositions, 8)]

init_reference_contact_map(o, old) ==
    IF ~o.fraction_of_contacts THEN old
    ELSE [kind |-> "sparse",
          data |-> compute_contact_map(o, ReferencePdbPositions)]

init_wrap(o) ==
    IF o.wrap_pdb_file = "None" THEN None ELSE Array(WrapPdbPositions)

CurrentBatch ==
    [num_frames |-> num_frames, rows |-> rows, cols |-> cols, rmsd |-> rmsd,
     fraction_of_contacts_data |-> fraction_of_contacts_data,
     point_cloud_data |-> point_cloud_data]

Construct ==
    /\ phase = "new"
    /\ IF init_raises(args)
       THEN /\ phase' = "ValueError"
            /\ outcome' = "ValueError"
            /\ UNCHANGED <<self, batch_vars, reference_vars, wrap_atoms>>
       ELSE LET o == init_fields(args)
                b == init_batch(o, CurrentBatch)
            IN  /\ phase' = "ok"
                /\ outcome' = "ok"
                /\ self' = o
                /\ num_frames' = b.num_frames
                /\ rows' = b.rows
                /\ cols' = b.cols
                /\ rmsd' = b.rmsd
                /\ fraction_of_contacts_data' = b.fraction_of_contacts_data
                /\ point_cloud_data' = b.point_cloud_data
                /\ reference_positions' = init_reference_positions(o)
                /\ reference_contact_map' =
                       init_reference_contact_map(o, reference_contact_map)
                /\ wrap_atoms' = init_wrap(o)
    /\ UNCHANGED <<args, files, sim_vars, reported, flushes, map_calls>>

\* ------------------------------------------------------------------------
\* OfflineReporter.report
\* ------------------------------------------------------------------------
\* the steps of the flush block in program order; each may raise IOError
Stages ==
    <<"open", "contact_map", "point_cloud", "rmsd", "fraction_of_contacts">>

StageIdx(st) == CHOOSE i \in DOMAIN Stages : Stages[i] = st

\* variant: the point cloud is written whatever the flag says
stage_enabled_point_cloud_always(o, st) ==
    CASE st = "open" -> TRUE
      [] st = "contact_map" -> o.contact_map
      [] st = "point_cloud" -> TRUE
      [] st = "rmsd" -> o.reference_pdb_file # "None"
      [] st = "fraction_of_contacts" -> o.fraction_of_contacts

\* variant: the rmsd write is tied to the fraction_of_contacts flag
stage_enabled_rmsd_by_flag(o, st) ==
    CASE st = "open" -> TRUE
      [] st = "contact_map" -> o.contact_map
      [] st = "point_cloud" -> o.point_cloud
      [] st = "rmsd" -> o.fraction_of_contacts
      [] st = "fraction_of_contacts" -> o.fraction_of_contacts

\* the steps the flush block executes for the object fields o
stage_enabled(o, st) ==
    CASE st = "open" -> TRUE
      [] st = "contact_map" -> o.contact_map
      [] st = "point_cloud" -> o.point_cloud
      [] st = "rmsd" -> o.reference_pdb_file # "None"
      [] st = "fraction_of_contacts" -> o.fraction_of_contacts

\* where a flush may fail: nowhere, or at one of the steps it executes
FailPoints(o) == {"none"} \cup {st \in Range(Stages) : stage_enabled(o, st)}

\* step st was entered / was completed when the flush fails at fail
stage_started(st, fail) == fail = "none" \/ StageIdx(st) <= StageIdx(fail)
stage_done(st, fail) == fail = "none" \/ StageIdx(st) < StageIdx(fail)

\* variants of the test that starts a flush
batch_full_gt(o, n) == n > o.frames_per_h5
batch_full_ge(o, n) == n >= o.frames_per_h5
batch_full_off_by_one(o, n) == n + 1 = o.frames_per_h5

\* the test that starts a flush
batch_full(o, n) == n = o.frames_per_h5

\* list.append on the attribute b; an ndarray has no append
can_append(b) == b.kind = "list"
list_append(b, x) == List(Append(b.data, x))

\* the content of the opened file after the flush block ran up to fail
flush_container(o, b, fail) ==
    LET h0 == open_w(files, file_name(o.base_name))
        h1 == IF o.contact_map /\ stage_done("contact_map", fail)
              THEN write_contact_map(h0, b.rows.data, b.cols.data) ELSE h0
        h2 == IF o.point_cloud /\ stage_done("point_cloud", fail)
              THEN write_point_cloud(h1, np_transpose_021(b.point_cloud_data.data))
              ELSE h1
        h3 == IF o.reference_pdb_file # "None" /\ stage_done("rmsd", fail)
              THEN write_rmsd(h2, b.rmsd.data) ELSE h2
    IN  IF o.fraction_of_contacts /\ stage_done("fraction_of_contacts", fail)
        THEN write_fraction_of_contacts(h3, b.fraction_of_contacts_data.data)
        ELSE h3

\* the arguments the flush block handed to the writers up to fail
flush_handed(o, b, fail) ==
    [a \in {x \in {"rows", "cols", "point_cloud", "rmsd",
                   "fraction_of_contacts"} :
               LET st == IF x \in {"rows", "cols"} THEN "contact_map" ELSE x
               IN  stage_enabled(o, st) /\ fail # "open"
                   /\ stage_done(st, fail)} |->
        CASE a = "rows" -> b.rows.data
          [] a = "cols" -> b.cols.data
          [] a = "point_cloud" -> np_transpose_021(b.point_cloud_data.data)
          [] a = "rmsd" -> b.rmsd.data
          [] a = "fraction_of_contacts" -> b.fraction_of_contacts_data.data]

\* self._point_cloud_data after the flush block ran up to fail
flush_point_cloud(o, b, fail) ==
    IF o.point_cloud /\ stage_started("point_cloud", fail)
    THEN Array(np_transpose_021(b.point_cloud_data.data))
    ELSE b.point_cloud_data

\* variant: the map is computed for the contact_map flag only
needs_contact_map_flag_only(o) == o.contact_map

\* the test guarding _compute_contact_map
needs_contact_map(o) == o.contact_map \/ o.fraction_of_contacts

\* variant: the superposition overwrites the reference with the frame
reference_after_rmsd_in_place(ref, positions) == Array(positions)

\* self._reference_positions after rms.rmsd(positions, reference) read it
reference_after_rmsd(ref, positions) == ref

\* variant: the wrap is done in the array the point cloud list refers to
frame_after_wrap_in_place(positions, wrapped) == wrapped

\* the array handed to report's collectors after self.wrap(positions) ran:
\* wrap copies the values into its own atoms and returns their positions
frame_after_wrap(positions, wrapped) == positions

SetBatch(b) ==
    /\ num_frames' = b.num_frames
    /\ rows' = b.rows
    /\ cols' = b.cols
    /\ rmsd' = b.rmsd
    /\ fraction_of_contacts_data' = b.fraction_of_contacts_data
    /\ point_cloud_data' = b.point_cloud_data

Report(all_positions, fail) ==
    /\ phase = "ok"
    /\ Len(reported) < MaxReports
    /\ reported' = Append(reported, all_positions)
    /\ map_calls' = Append(map_calls,
           IF needs_contact_map(self)
           THEN <<compute_contact_map(self,
                      ExtractPositions(all_positions, self.openmm_selection))>>
           ELSE <<>>)
    /\ LET positions == ExtractPositions(all_positions, self.openmm_selection)
           need_map == needs_contact_map(self)
           contact_map == compute_contact_map(self, positions)
           rows1 == IF need_map /\ self.contact_map
                    THEN list_append(rows, coo_row(contact_map)) ELSE rows
           cols1 == IF need_map /\ self.contact_map
                    THEN list_append(cols, coo_col(contact_map)) ELSE cols
           foc1 == IF need_map /\ self.fraction_of_contacts
                   THEN list_append(fraction_of_contacts_data,
                            fraction_of_contacts(contact_map,
                                                 reference_contact_map.data))
                   ELSE fraction_of_contacts_data
           has_ref == reference_positions # None
           wrapped == IF wrap_atoms # None THEN wrap_nsp10_16(positions)
                      ELSE positions
           collected == IF has_ref /\ wrap_atoms # None
                        THEN frame_after_wrap(positions, wrapped)
                        ELSE positions
           ref1 == IF has_ref
                   THEN reference_after_rmsd(reference_positions, wrapped)
                   ELSE reference_positions
           b1 == [num_frames |-> num_frames + 1,
                  rows |-> rows1, cols |-> cols1,
                  rmsd |-> IF has_ref
                           THEN list_append(rmsd,
                                    rms_rmsd(wrapped, reference_positions.data))
                           ELSE rmsd,
                  fraction_of_contacts_data |-> foc1,
                  point_cloud_data |->
                      IF self.point_cloud
                      THEN list_append(point_cloud_data, collected)
                      ELSE point_cloud_data]
           wrap1 == IF has_ref /\ wrap_atoms # None THEN Array(wrapped)
                    ELSE wrap_atoms
       IN  IF self.point_cloud /\ ~can_append(point_cloud_data)
           THEN \* AttributeError in _collect_point_cloud
                /\ fail = "none"
                /\ outcome' = "AttributeError"
                /\ rows' = rows1
                /\ cols' = cols1
                /\ fraction_of_contacts_data' = foc1
                /\ UNCHANGED <<num_frames, rmsd, point_cloud_data, wrap_atoms,
                               reference_positions, files, flushes>>
           ELSE IF ~batch_full(self, b1.num_frames)
           THEN /\ fail = "none"
                /\ outcome' = "ok"
                /\ SetBatch(b1)
                /\ wrap_atoms' = wrap1
                /\ reference_positions' = ref1
                /\ UNCHANGED <<files, flushes>>
           ELSE /\ fail \in FailPoints(self)
                /\ wrap_atoms' = wrap1
                /\ reference_positions' = ref1
                /\ flushes' = Append(flushes,
                       [call |-> Len(reported) + 1, fail |-> fail,
                        name |-> file_name(self.base_name),
                        handed |-> flush_handed(self, b1, fail),
                        written |-> IF fail = "open" THEN EmptyContainer
                                    ELSE flush_container(self, b1, fail)])
                /\ files' = IF fail = "open" THEN files
                            ELSE (file_name(self.base_name) :>
                                      flush_container(self, b1, fail)) @@ files
                /\ IF fail = "none"
                   THEN /\ outcome' = "ok"
                        /\ SetBatch(init_batch(self,
                               [b1 EXCEPT !.point_cloud_data =
                                   flush_point_cloud(self, b1, fail)]))
                   ELSE /\ outcome' = "IOError"
                        /\ SetBatch([b1 EXCEPT !.point_cloud_data =
                               flush_point_cloud(self, b1, fail)])
    /\ UNCHANGED <<args, phase, self, reference_contact_map, sim_vars>>

\* ------------------------------------------------------------------------
\* OfflineReporter.describeNextReport and the simulation's step counter
\* ------------------------------------------------------------------------
\* variant: the remainder is taken after the subtraction
steps_until_report_mod(report_interval, step) ==
    (report_interval - step) % report_interval

steps_until_report(report_interval, step) ==
    report_interval - (step % report_interval)

describeNextReport(o, step) ==
    <<steps_until_report(o.report_interval, step), TRUE, FALSE, FALSE, FALSE,
      "None">>

DescribeNextReport ==
    /\ phase = "ok"
    /\ described' = [at |-> currentStep,
                     value |-> describeNextReport(self, currentStep)]
    /\ UNCHANGED <<args, phase, self, batch_vars, reference_vars, wrap_atoms,
                   files, outcome, currentStep, reported, flushes, map_calls>>

\* the simulation advances by one integration step
Step ==
    /\ phase = "ok"
    /\ currentStep < MaxStep
    /\ currentStep' = currentStep + 1
    /\ UNCHANGED <<args, phase, self, batch_vars, reference_vars, wrap_atoms,
                   files, outcome, described, reported, flushes, map_calls>>

\* ------------------------------------------------------------------------
\* Specifications
\* ------------------------------------------------------------------------
ReportSome ==
    \E all_positions \in AllPositionsSet :
        \E fail \in Range(Stages) \cup {"none"} : Report(all_positions, fail)

Next == Construct \/ ReportSome

Spec == Init /\ [][Next]_vars

\* the reporter with both of its methods called, at one simulation step
NextBoth == Construct \/ ReportSome \/ DescribeNextReport

SpecBoth == Init /\ [][NextBoth]_vars

NextSched == Construct \/ DescribeNextReport \/ Step

SpecSched == InitSched /\ [][NextSched]_vars

\* ------------------------------------------------------------------------
\* Vocabulary of the properties
\* ------------------------------------------------------------------------
Constructed == phase = "ok"

Calls == Len(reported)

BatchSize == args.frames_per_h5

HasReference == args.reference_pdb_file # "None"

\* the frame report() works on: the CA atoms (1 and 3), in angstrom
FrameOf(ap) ==
    << <<10 * ap[1][1], 10 * ap[1][2], 10 * ap[1][3]>>,
       <<10 * ap[3][1], 10 * ap[3][2], 10 * ap[3][3]>> >>

\* the frames of report calls from..to, in call order
Frames(from, to) == [k \in 1..(to - from + 1) |-> FrameOf(reported[from + k - 1])]

\* the descriptors of one frame
MapOf(fr) == contact_matrix(fr, args.threshold)
RowsOf(fr) == coo_row(MapOf(fr))
ColsOf(fr) == coo_col(MapOf(fr))
FocOf(fr) ==
    fraction_of_contacts(MapOf(fr),
                         contact_matrix(ReferencePdbPositions, args.threshold))
RmsdOf(fr) ==
    rms_rmsd(IF args.wrap_pdb_file = "None" THEN fr ELSE wrap_nsp10_16(fr),
             ReferencePdbPositions)

\* the buffers that exist for the configuration, as a function name -> value
EnabledBuffers ==
    [b \in (IF args.contact_map THEN {"rows", "cols"} ELSE {})
           \cup (IF args.point_cloud THEN {"point_cloud"} ELSE {})
           \cup (IF HasReference THEN {"rmsd"} ELSE {})
           \cup (IF args.fraction_of_contacts THEN {"fraction_of_contacts"}
                 ELSE {}) |->
        CASE b = "rows" -> rows
          [] b = "cols" -> cols
          [] b = "point_cloud" -> point_cloud_data
          [] b = "rmsd" -> rmsd
          [] b = "fraction_of_contacts" -> fraction_of_contacts_data]

\* the slots a complete flush of the configuration writes
EnabledSlots ==
    (IF args.contact_map THEN {"contact_map_rows", "contact_map_cols"} ELSE {})
    \cup (IF args.point_cloud THEN {"point_cloud"} ELSE {})
    \cup (IF HasReference THEN {"rmsd"} ELSE {})
    \cup (IF args.fraction_of_contacts THEN {"fraction_of_contacts"} ELSE {})

\* what slot sl holds when it was written from the frames fs
SlotOf(sl, fs) ==
    CASE sl = "contact_map_rows" -> [f \in DOMAIN fs |-> RowsOf(fs[f])]
      [] sl = "contact_map_cols" -> [f \in DOMAIN fs |-> ColsOf(fs[f])]
      [] sl = "point_cloud" ->
             [f \in DOMAIN fs |->
                 << <<fs[f][1][1], fs[f][2][1]>>,
                    <<fs[f][1][2], fs[f][2][2]>>,
                    <<fs[f][1][3], fs[f][2][3]>> >>]
      [] sl = "rmsd" -> [f \in DOMAIN fs |-> RmsdOf(fs[f])]
      [] sl = "fraction_of_contacts" -> [f \in DOMAIN fs |-> FocOf(fs[f])]

\* what the writers are handed for buffer b collected from the frames fs
HandedOf(b, fs) ==
    SlotOf(CASE b = "rows" -> "contact_map_rows"
             [] b = "cols" -> "contact_map_cols"
             [] OTHER -> b, fs)

\* what buffer b holds when it collected the frames fs
BufferOf(b, fs) ==
    CASE b = "rows" -> List([f \in DOMAIN fs |-> RowsOf(fs[f])])
      [] b = "cols" -> List([f \in DOMAIN fs |-> ColsOf(fs[f])])
      [] b = "point_cloud" -> List(fs)
      [] b = "rmsd" -> List([f \in DOMAIN fs |-> RmsdOf(fs[f])])
      [] b = "fraction_of_contacts" -> List([f \in DOMAIN fs |-> FocOf(fs[f])])

\* no flush attempted so far raised IOError
NoWriteFailure == \A k \in DOMAIN flushes : flushes[k].fail = "none"

\* the call in which the last completed flush happened, 0 if none did
LastFlushCall ==
    LET done == {flushes[k].call : k \in {j \in DOMAIN flushes :
                                            flushes[j].fail = "none"}}
    IN  IF done = {} THEN 0 ELSE CHOOSE c \in done : \A d \in done : d <= c

\* the accumulator is in its empty state
AccumulatorEmpty ==
    /\ num_frames = 0
    /\ \A b \in DOMAIN EnabledBuffers : EnabledBuffers[b] = List(<<>>)

\* ------------------------------------------------------------------------
\* Properties
\* ------------------------------------------------------------------------

\* C1: with frames_per_h5 = N > 0, the N-th report call since construction
\* or since the previous flush performs a flush, and when it returns the
\* frame counter is 0 and every enabled buffer is empty.
C1_AutoFlushResets ==
    [][(/\ Constructed
        /\ BatchSize > 0
        /\ reported' # reported
        /\ outcome' = "ok"
        /\ (Calls - LastFlushCall) + 1 = BatchSize)
       => /\ Len(flushes') = Len(flushes) + 1
          /\ flushes'[Len(flushes')].call = Calls + 1
          /\ AccumulatorEmpty']_vars

C1_Witness ==
    /\ Constructed
    /\ BatchSize = 2
    /\ args.contact_map /\ args.point_cloud /\ args.fraction_of_contacts
    /\ Calls = 2
    /\ Len(flushes) = 1
    /\ flushes[1].call = 2
    /\ outcome = "ok"
    /\ AccumulatorEmpty

\* C2: between report calls every enabled buffer is as long as the frame
\* counter says.
C2_BuffersMatchCounter ==
    Constructed =>
        \A b \in DOMAIN EnabledBuffers :
            Len(EnabledBuffers[b].data) = num_frames

\* C3: with N > 0 and no write failure, flush k happens in call k*N and
\* writes exactly the frames of calls (k-1)*N+1 .. k*N in order, each frame
\* in one flush only, and the accumulator holds the last (n mod N) frames.
C3_FlushesPartitionFrames ==
    (Constructed /\ BatchSize > 0 /\ NoWriteFailure) =>
        /\ Len(flushes) = Calls \div BatchSize
        /\ \A k \in DOMAIN flushes :
               /\ flushes[k].call = k * BatchSize
               /\ DOMAIN flushes[k].handed = DOMAIN EnabledBuffers
               /\ \A b \in DOMAIN EnabledBuffers :
                      flushes[k].handed[b] =
                          HandedOf(b, Frames((k - 1) * BatchSize + 1,
                                             k * BatchSize))
        /\ num_frames = Calls % BatchSize
        /\ \A b \in DOMAIN EnabledBuffers :
               EnabledBuffers[b] =
                   BufferOf(b, Frames(Calls - (Calls % BatchSize) + 1, Calls))

C3_Witness ==
    /\ Constructed
    /\ BatchSize = 2
    /\ args.point_cloud /\ ~args.contact_map /\ ~args.fraction_of_contacts
    /\ ~HasReference
    /\ Calls = 3
    /\ reported[1] # reported[2]
    /\ Len(flushes) = 1
    /\ flushes[1].fail = "none"
    /\ Len(flushes[1].handed["point_cloud"]) = 2
    /\ point_cloud_data = List(<<FrameOf(reported[3])>>)

\* C4: construction fails exactly when fraction_of_contacts or contact_map
\* is enabled while no reference structure file is configured.
C4_ConstructionValidation ==
    phase # "new" =>
        (phase = "ValueError" <=>
            ((args.fraction_of_contacts \/ args.contact_map) /\ ~HasReference))

C4_Witness ==
    /\ phase = "ValueError"
    /\ args.contact_map
    /\ ~args.fraction_of_contacts
    /\ ~HasReference

\* C5: when a flush fails with IOError the batch in memory is what it was
\* before the flush was attempted: the counter is still N and every enabled
\* buffer holds the collected frames of the batch.
C5_FailedFlushKeepsBatch ==
    (Constructed /\ outcome = "IOError") =>
        /\ num_frames = BatchSize
        /\ \A b \in DOMAIN EnabledBuffers :
               EnabledBuffers[b] =
                   BufferOf(b, Frames(Calls - BatchSize + 1, Calls))

\* C6: the output file never holds part of a flush: it has all enabled
\* slots of one flush or it was never touched.
C6_FlushAtomic ==
    Constructed =>
        \A n \in DOMAIN files :
            \E k \in DOMAIN flushes :
                /\ DOMAIN files[n] = EnabledSlots
                /\ files[n] = flushes[k].written

\* C7: with frames_per_h5 = 0 no report call flushes: nothing is written,
\* the accumulator is never reset and the counter is the number of calls.
C7_ZeroNeverFlushes ==
    (Constructed /\ BatchSize = 0) =>
        /\ flushes = <<>>
        /\ DOMAIN files = {}
        /\ num_frames = Calls
        /\ \A b \in DOMAIN EnabledBuffers :
               EnabledBuffers[b] = BufferOf(b, Frames(1, Calls))

C7_Witness ==
    /\ Constructed
    /\ BatchSize = 0
    /\ Calls >= 3
    /\ args.point_cloud
    /\ num_frames = Calls

\* C8: only full batches are written: every buffer handed to a writer has
\* exactly N entries, flush k hands over frames of calls (k-1)*N+1 .. k*N
\* only, so the last (n mod N) frames are never written; without a write
\* failure they are the content of the accumulator.
C8_OnlyFullBatchesWritten ==
    (Constructed /\ BatchSize > 0) =>
        /\ \A k \in DOMAIN flushes :
               /\ flushes[k].call = k * BatchSize
               /\ flushes[k].call <= Calls - (Calls % BatchSize)
               /\ \A b \in DOMAIN flushes[k].handed :
                      /\ Len(flushes[k].handed[b]) = BatchSize
                      /\ flushes[k].handed[b] =
                             HandedOf(b, Frames((k - 1) * BatchSize + 1,
                                                k * BatchSize))
        /\ NoWriteFailure =>
               /\ Len(flushes) * BatchSize = Calls - (Calls % BatchSize)
               /\ \A b \in DOMAIN EnabledBuffers :
                      Len(EnabledBuffers[b].data) = Calls % BatchSize

C8_Witness ==
    /\ Constructed
    /\ BatchSize = 2
    /\ args.point_cloud
    /\ Calls = 3
    /\ Len(flushes) = 1
    /\ flushes[1].fail = "none"
    /\ num_frames = 1
    /\ reported[3] # reported[1]
    /\ reported[3] # reported[2]

\* C9: every flush opens the same file, base name + ".h5", and after the
\* k-th successful flush the file holds the frames of batch k and nothing
\* of the batches before.
C9_FlushRewritesFile ==
    Constructed =>
        /\ \A k \in DOMAIN flushes : flushes[k].name = <<args.file, ".h5">>
        /\ DOMAIN files \subseteq {<<args.file, ".h5">>}
        /\ (flushes # <<>> /\ NoWriteFailure) =>
               LET k == Len(flushes)
                   f == files[<<args.file, ".h5">>]
               IN  /\ DOMAIN f = EnabledSlots
                   /\ \A sl \in EnabledSlots :
                          f[sl] = SlotOf(sl, Frames((k - 1) * BatchSize + 1,
                                                    k * BatchSize))

C9_Witness ==
    /\ Constructed
    /\ BatchSize = 1
    /\ args.point_cloud
    /\ Len(flushes) = 2
    /\ NoWriteFailure
    /\ reported[1] # reported[2]
    /\ Len(files[<<args.file, ".h5">>]["point_cloud"]) = 1

\* C10: describeNextReport returns (steps, True, False, False, False, None)
\* with steps in 1..reportInterval and currentStep + steps a multiple of
\* reportInterval.
C10_DescribeNextReport ==
    described # NoCall =>
        LET d == described.value
        IN  /\ Len(d) = 6
            /\ d[2] = TRUE
            /\ d[3] = FALSE /\ d[4] = FALSE /\ d[5] = FALSE
            /\ d[6] = "None"
            /\ d[1] \in 1..args.reportInterval
            /\ (described.at + d[1]) % args.reportInterval = 0

C10_Witness ==
    /\ described # NoCall
    /\ args.reportInterval = 2
    /\ described.at = 4
    /\ described.value[1] = 2

\* C11: a flush writes a slot only if its flag was enabled at construction:
\* nothing outside the enabled buffers is ever handed to a writer, and a
\* flush that completes hands over rows and columns iff contact_map, the
\* point cloud iff point_cloud, the fractions iff fraction_of_contacts.
C11_SlotsFollowFlags ==
    Constructed =>
        \A k \in DOMAIN flushes :
            LET h == DOMAIN flushes[k].handed
            IN  /\ "rows" \in h => args.contact_map
                /\ "cols" \in h => args.contact_map
                /\ "point_cloud" \in h => args.point_cloud
                /\ "fraction_of_contacts" \in h => args.fraction_of_contacts
                /\ flushes[k].fail = "none" =>
                       /\ "rows" \in h <=> args.contact_map
                       /\ "cols" \in h <=> args.contact_map
                       /\ "point_cloud" \in h <=> args.point_cloud
                       /\ "fraction_of_contacts" \in h <=>
                              args.fraction_of_contacts

C11_Witness ==
    /\ Constructed
    /\ args.contact_map /\ ~args.point_cloud /\ ~args.fraction_of_contacts
    /\ Len(flushes) = 1
    /\ flushes[1].fail = "none"
    /\ DOMAIN flushes[1].handed = {"rows", "cols", "rmsd"}

\* C12: the point cloud a flush writes is the collected batch with the atom
\* axis and the coordinate axis swapped: written[f][c][a] = frame f's
\* coordinate c of atom a, frames in report order.
C12_PointCloudTransposed ==
    Constructed =>
        \A k \in DOMAIN flushes :
            "point_cloud" \in DOMAIN flushes[k].handed =>
                LET w == flushes[k].handed["point_cloud"]
                    first == flushes[k].call - BatchSize
                IN  /\ Len(w) = BatchSize
                    /\ \A f \in DOMAIN w :
                           /\ Len(w[f]) = 3
                           /\ \A c \in 1..3 :
                                  /\ Len(w[f][c]) = 2
                                  /\ \A a \in 1..2 :
                                         w[f][c][a] =
                                             FrameOf(reported[first + f])[a][c]

C12_Witness ==
    /\ Constructed
    /\ BatchSize = 2
    /\ args.point_cloud
    /\ Len(flushes) = 1
    /\ "point_cloud" \in DOMAIN flushes[1].handed
    /\ reported[1] # reported[2]
    /\ flushes[1].handed["point_cloud"][2][1] = <<0, 10 * reported[2][3][1]>>

\* C13: the reference positions and the reference contact map are set by
\* the constructor from the reference file and no later report or
\* describeNextReport call changes them.
C13_ReferenceImmutable ==
    [][Constructed =>
          /\ reference_positions' = reference_positions
          /\ reference_contact_map' = reference_contact_map
          /\ reference_positions' =
                 (IF HasReference THEN Array(ReferencePdbPositions) ELSE None)]_vars

C13_Witness ==
    /\ Constructed
    /\ HasReference
    /\ args.fraction_of_contacts
    /\ args.wrap_pdb_file # "None"
    /\ Calls = 3
    /\ Len(flushes) >= 1
    /\ described # NoCall
    /\ reference_positions = Array(ReferencePdbPositions)
    /\ reference_contact_map.kind = "sparse"

\* C14: the reference contact map and the contact map of every frame are
\* computed with one and the same threshold, the one given at construction.
C14_SameThreshold ==
    Constructed =>
        /\ self.threshold = args.threshold
        /\ \A i \in DOMAIN map_calls :
               map_calls[i] # <<>> =>
                   map_calls[i] =
                       <<contact_matrix(FrameOf(reported[i]), args.threshold)>>
        /\ args.fraction_of_contacts =>
               reference_contact_map.data =
                   contact_matrix(ReferencePdbPositions, args.threshold)
        /\ LET n == Len(fraction_of_contacts_data.data)
           IN  \A j \in 1..n :
                   fraction_of_contacts_data.data[j] =
                       fraction_of_contacts(
                           contact_matrix(FrameOf(reported[Calls - n + j]),
                                          args.threshold),
                           contact_matrix(ReferencePdbPositions,
                                          args.threshold))

C14_Witness ==
    /\ Constructed
    /\ args.fraction_of_contacts
    /\ args.threshold = 12
    /\ BatchSize = 0
    /\ Calls = 2
    /\ reference_contact_map.data # contact_matrix(ReferencePdbPositions, 8)
    /\ fraction_of_contacts_data.data[1] # fraction_of_contacts_data.data[2]

\* C15: a report call computes the frame's contact map iff contact_map or
\* fraction_of_contacts is on; with fraction_of_contacts alone the map is
\* computed and gives the fraction, and no row or column entry exists.
C15_ContactMapOnDemand ==
    Constructed =>
        /\ Len(map_calls) = Calls
        /\ \A i \in DOMAIN map_calls :
               /\ map_calls[i] # <<>> <=>
                      (args.contact_map \/ args.fraction_of_contacts)
               /\ map_calls[i] # <<>> =>
                      map_calls[i][1] = MapOf(FrameOf(reported[i]))
        /\ (args.fraction_of_contacts /\ ~args.contact_map) =>
               /\ rows = Unset
               /\ cols = Unset
               /\ \A k \in DOMAIN flushes :
                      DOMAIN flushes[k].handed \cap {"rows", "cols"} = {}
               /\ LET n == Len(fraction_of_contacts_data.data)
                  IN  /\ NoWriteFailure =>
                             n = (IF BatchSize = 0 THEN Calls
                                  ELSE Calls % BatchSize)
                      /\ \A j \in 1..n :
                             fraction_of_contacts_data.data[j] =
                                 fraction_of_contacts(
                                     map_calls[Calls - n + j][1],
                                     reference_contact_map.data)

C15_Witness ==
    /\ Constructed
    /\ args.fraction_of_contacts /\ ~args.contact_map
    /\ BatchSize = 0
    /\ Calls = 2
    /\ map_calls[1] # <<>>
    /\ map_calls[1] # map_calls[2]
    /\ Len(fraction_of_contacts_data.data) = 2
    /\ rows = Unset

C17_WrapOnlyForRmsd ==
    [][(/\ Constructed
        /\ args.wrap_pdb_file # "None"
        /\ reported' # reported
        /\ outcome' = "ok")
       => LET fr == FrameOf(reported'[Len(reported')])
              flushed == flushes' # flushes
              h == flushes'[Len(flushes')].handed
          IN  /\ args.point_cloud =>
                     IF flushed
                     THEN \A c \in 1..3 : \A a \in 1..2 :
                              h["point_cloud"][BatchSize][c][a] = fr[a][c]
                     ELSE point_cloud_data'.data =
                              Append(point_cloud_data.data, fr)
              /\ (args.contact_map \/ args.fraction_of_contacts) =>
                     map_calls'[Len(map_calls')] =
                         <<contact_matrix(fr, args.threshold)>>
              /\ args.contact_map =>
                     IF flushed
                     THEN h["rows"][BatchSize] =
                              coo_row(contact_matrix(fr, args.threshold))
                     ELSE rows'.data =
                              Append(rows.data,
                                  coo_row(contact_matrix(fr, args.threshold)))
              /\ HasReference =>
                     /\ wrap_atoms' = Array(wrap_nsp10_16(fr))
                     /\ IF flushed
                        THEN h["rmsd"][BatchSize] =
                                 rms_rmsd(wrap_nsp10_16(fr),
                                          ReferencePdbPositions)
                        ELSE rmsd'.data =
                                 Append(rmsd.data,
                                     rms_rmsd(wrap_nsp10_16(fr),
                                              ReferencePdbPositions))]_vars

C17_Witness ==
    /\ Constructed
    /\ args.wrap_pdb_file # "None"
    /\ HasReference
    /\ args.point_cloud /\ args.contact_map
    /\ args.threshold = 12
    /\ outcome = "ok"
    /\ Calls = 1
    /\ point_cloud_data.data = <<FrameOf(reported[1])>>
    /\ wrap_atoms.data # FrameOf(reported[1])
    /\ contact_matrix(wrap_atoms.data, 12) # map_calls[1][1]
    /\ rmsd.data # <<rms_rmsd(FrameOf(reported[1]), ReferencePdbPositions)>>

====
